---- MODULE Spec2Model ----
(***************************************************************************)
(* Strategy execution scheduler of the trading bot:                        *)
(*   TradingStrategy/StrategyManager.py  (run loops, state initialisation) *)
(*   TradingStrategy/Template.py         (StrategyTemplate.execute / buy)  *)
(*   TradingStrategy/ExecutionValidator.py                                 *)
(*   TradingStrategy/StrategyLogger.py   (batched logger)                  *)
(*                                                                         *)
(* Conventions.  A Python Optional value is a sequence of length <= 1:     *)
(* None is << >> and a present value x is << x >>.  Prices are integers;   *)
(* tolerance_percent is kept in thousandths of the price (0.1 % = 1/1000)  *)
(* and comparisons against a tolerance band are cross-multiplied, so no    *)
(* rounding enters the model.                                              *)
(*                                                                         *)
(* The sources refer to names other revisions of the package define        *)
(* (TradeStatus.HOLDING, TradingMode.SIMULATION, strategy_input.ltp, the   *)
(* logger imports of StrategyManager).  The model takes every name to      *)
(* resolve to what it denotes and follows the control and data flow as     *)
(* written; a collaborator (broker login, price source, order gateway,     *)
(* file system) either does its job or raises.                             *)
(***************************************************************************)
EXTENDS Integers, Sequences, FiniteSets, TLC

VARIABLES
    \* ---- StrategyManager (one run) ----
    strategy_name,          \* self.strategy.strategy_name
    mode,                   \* self.mode
    broker,                 \* self.broker (Optional)
    is_async,               \* run() or run_async()
    execution_frequency_mode,
    pc,                     \* position of the run: login, fetch, execute, returned, raised
    iteration,              \* run_backtest's iteration / number of live ticks begun
    ltp,                    \* the local ltp of the run loop (Optional)
    state,                  \* strategy_manager_state
    strategy_trade_status,  \* self.strategy.trade_status
    input_ltp,              \* self.strategy.strategy_input.ltp
    buy_price,              \* what self.strategy.get_buy_price() returns now
    decision,               \* strategy_output of the last tick (Optional)
    validated,              \* what validate() returned in the last tick (Optional)
    suspended,              \* the suspension the run performed last
    results_log,            \* TradingResults/Backtest/Results.json
    orders,                 \* number of submitted orders the broker has not yet reported on
    last_submitted,         \* number of orders submitted by the last tick
    price_used,             \* target / stop-loss computed by the last frequency call
    stop_requested,         \* an interrupt (SIGINT) was delivered to the run
    \* ---- initialize_strategy_manager_state as a function ----
    persisted,              \* what load_strategy_manager_state() returned (Optional)
    initialized,            \* result of initialize_strategy_manager_state (Optional)
    \* ---- StrategyLogger ----
    logger,                 \* the StrategyLogger object and its file
    passed,                 \* the trade actions passed to log_strategy_output, call by call
    judged,                 \* the calls that were over when end_logging was first called
    threads,                \* the callers of the logger, each with its position and locals
    \* ---- concurrent runs writing the result log ----
    runs,                   \* each run's position in StrategyManager.log_strategy_output
    run_files,              \* the result files, by path
    \* ---- the frequency functions, called on their own ----
    fcall,                  \* the function called and its arguments
    fresult                 \* what the call did (Optional)

schedVars == << strategy_name, mode, broker, is_async, execution_frequency_mode, pc,
                iteration, ltp, state,
                strategy_trade_status, input_ltp, buy_price, decision, validated,
                suspended, results_log, orders, last_submitted, price_used,
                stop_requested >>
initVars == << persisted, initialized >>
logVars == << logger, passed, judged, threads >>
runVars == << runs, run_files >>
callVars == << fcall, fresult >>
vars == << schedVars, initVars, logVars, runVars, callVars >>

----------------------------------------------------------------------------
\* Bounds of the model.
MaxTicks == 2          \* ticks explored in one run (also run_backtest's max_iterations)
MaxQuantity == 1       \* largest quantity get_buy_quantity returns
MaxRecords == 2        \* records passed to one StrategyLogger
MaxBatch == 2          \* largest batch_size passed to log_strategy_output
MaxAppends == 2        \* ticks each of two concurrent runs logs
MaxAttempts == 3       \* get_ltp calls explored in one fetch_ltp call

None == << >>
Some(x) == << x >>
IsNone(o) == o = << >>
Val(o) == o[1]

\* Constants.py
TradingModes == {"LIVE", "BACKTEST", "SIMULATION"}
\* run() sends SIMULATION to run_backtest with another budget: one loop stands for both.
RunModes == {"LIVE", "BACKTEST"}
Brokers == {"ZERODHA", "UPSTOX"}
ExecutionFrequencyModes == {"CONSTANT", "DYNAMIC"}
StrategyNames == {"MockStrategy", "OtherStrategy"}

\* Strategy parameters (percentages) of the run; tolerance in thousandths.
target_percent == 4
stop_loss_percent == 2
tolerance_per_mille == 1

\* Frequencies per hour are rationals num/den (the default bounds are 1/24 and 30).
Rat(n, d) == [num |-> n, den |-> d]
execution_frequency == Rat(10, 1)
min_max_execution_frequency == << Rat(1, 24), Rat(30, 1) >>
error_cooldown_time == 60 * 60
strategy_cooldown_time == 30 * 24 * 60 * 60

\* Prices the price source / the strategy input / the reference price can take.
LtpValues == {799, 805}
BuyPrices == {800, 1000}

----------------------------------------------------------------------------
\* StrategyData.BaseStrategyOutput as execute() first builds it.
NoActionOutput ==
    [trade_action |-> "NO_ACTION", quantity |-> None, execution_status |-> None,
     order_id |-> None, information |-> "none"]

\* StrategyManager.reset_strategy_state: a fresh BaseStrategyManagerState.
reset_strategy_state(name, m, br) ==
    [strategy_name |-> name, ltp |-> None, timestamp |-> None,
     trade_status |-> "NOT_TRIGGERED", trading_mode |-> m,
     holding_quantity |-> Some(0), broker |-> br]

\* StrategyManager.__init__: self.broker is the input's broker only in LIVE mode.
manager_broker(m, input_broker) == IF m = "LIVE" THEN Some(input_broker) ELSE None

\* StrategyManager.load_strategy_manager_state: a placeholder returning None.
load_strategy_manager_state == None

\* StrategyManager.initialize_strategy_manager_state, given what was loaded.
\* The broker comparison sits inside the trading_mode branch, after the reset.
initialize_strategy_manager_state(loaded, name, m, br) ==
    IF ~IsNone(loaded)
    THEN IF Val(loaded).strategy_name # name
         THEN reset_strategy_state(name, m, br)
         ELSE IF Val(loaded).trading_mode # m
              THEN LET fresh == reset_strategy_state(name, m, br)
                   IN IF ~IsNone(br) /\ fresh.broker # br
                      THEN reset_strategy_state(name, m, br)
                      ELSE fresh
              ELSE Val(loaded)
    ELSE reset_strategy_state(name, m, br)

----------------------------------------------------------------------------
\* StrategyTemplate.get_target_price / get_stop_loss_price (exact on BuyPrices).
get_target_price(bp) == (bp * (100 + target_percent)) \div 100
get_stop_loss_price(bp) == (bp * (100 - stop_loss_percent)) \div 100

\* StrategyTemplate.buy_signal: ltp < buy_price + tolerance.
buy_signal(p, bp) == 1000 * p < bp * (1000 + tolerance_per_mille)

\* StrategyTemplate.sell_signal: above target - tolerance, or below stop + tolerance.
sell_signal(p, bp) ==
    \/ 1000 * p > get_target_price(bp) * (1000 - tolerance_per_mille)
    \/ 1000 * p < get_stop_loss_price(bp) * (1000 + tolerance_per_mille)

\* What the order gateway and the account API do in one call of buy().
\* "lookup_raises": get_brokerage_charges or validate_margin raised.
GatewayOutcomes == {"ok", "lookup_raises", "margin_insufficient", "order_raises",
                    "order_no_id"}

Raise == [raised |-> TRUE, output |-> NoActionOutput, submitted |-> 0]
Return(out, n) == [raised |-> FALSE, output |-> out, submitted |-> n]

\* StrategyTemplate.buy.
buy(out, p, bp, qty, gw) ==
    IF buy_signal(p, bp)
    THEN IF gw = "lookup_raises" THEN Raise
         ELSE IF gw = "margin_insufficient"
         THEN Return([out EXCEPT !.execution_status = Some("FAILURE"),
                                 !.information = "insufficient_margin"], 0)
         ELSE IF gw = "order_raises" THEN Raise
         ELSE Return([out EXCEPT !.trade_action = "BUY",
                                 !.quantity = Some(qty),
                                 !.order_id = IF gw = "ok" THEN Some("id") ELSE None,
                                 !.information = "buy_placed",
                                 !.execution_status = Some("SUCCESS")],
                     IF gw = "ok" THEN 1 ELSE 0)
    ELSE Return(out, 0)

\* StrategyTemplate.sell, called with its output argument.  It places the order
\* with price and quantity None.
sell(out, p, bp, gw) ==
    LET held == [out EXCEPT !.trade_action = "HOLD"]
    IN  IF sell_signal(p, bp)
        THEN IF gw = "order_raises" THEN Raise
             ELSE Return([held EXCEPT !.trade_action = "SELL",
                                      !.quantity = None,
                                      !.order_id = IF gw = "ok" THEN Some("id") ELSE None,
                                      !.information = "sell_placed",
                                      !.execution_status = Some("SUCCESS")],
                         IF gw = "ok" THEN 1 ELSE 0)
        ELSE Return(held, 0)

\* StrategyTemplateV0.sell_signal_trigger / sell_signal_stop_loss: whether a
\* signal (and not None) is returned.
sell_signal_trigger(p, bp) ==
    1000 * p > get_target_price(bp) * (1000 - tolerance_per_mille)

sell_signal_stop_loss(p, bp) ==
    1000 * p < get_stop_loss_price(bp) * (1000 + tolerance_per_mille)

\* StrategyTemplate.execute.  The HOLD branch calls self.sell() without its
\* argument, which raises; any other status raises ValueError.
execute(ts, p, bp, qty, gw) ==
    IF ts = "NOT_TRIGGERED" THEN buy(NoActionOutput, p, bp, qty, gw)
    ELSE Raise

\* ExecutionValidator.validate.
validate(out) == TRUE

\* What a call of a function does: it raises, or returns a value (None included).
Raises == [raised |-> TRUE, value |-> None]
Returns(v) == [raised |-> FALSE, value |-> v]

\* The order of two rationals with positive denominators.
RatLeq(a, b) == a.num * b.den <= b.num * a.den

\* StrategyManager._get_harmonic_mean on rationals.
harmonic_mean(a, b) ==
    IF a.num * b.den + b.num * a.den = 0 THEN Rat(0, 1)
    ELSE Rat(2 * a.num * b.num, a.num * b.den + b.num * a.den)

\* _get_harmonic_mean with arguments that may be None: value1 + value2 raises
\* TypeError when either is.
get_harmonic_mean(a, b) ==
    IF IsNone(a) \/ IsNone(b) THEN Raises
    ELSE Returns(Some(harmonic_mean(Val(a), Val(b))))

\* StrategyManager.calculate_frequency.  With a bound of None it calls
\* _get_harmonic_mean on it, which raises; otherwise the normalised frequency
\* is computed and dropped: the function has no return statement and yields None.
calculate_frequency(min_f, max_f, closeness) ==
    IF IsNone(min_f) \/ IsNone(max_f) THEN get_harmonic_mean(min_f, max_f)
    ELSE Returns(None)

\* What get_dynamic_execution_frequency did: raised or returned f, with the target
\* and stop-loss prices it computed and, in order, the percentage_closeness
\* values c it passed to calculate_frequency.
FreqRaise(t, s, c) == [raised |-> TRUE, frequency |-> None, target_price |-> t,
                       stop_loss_price |-> s, passed |-> c]
FreqReturn(f, t, s, c) == [raised |-> FALSE, frequency |-> f, target_price |-> t,
                           stop_loss_price |-> s, passed |-> c]

\* StrategyManager.get_dynamic_execution_frequency.  ts is self.strategy.trade_status,
\* p the fetched ltp, bp what get_buy_price() returns in this call; min_f and
\* max_f may be None.  The default frequency is computed before the bounds are
\* tested for None (line 783), so a bound of None raises there.
get_dynamic_execution_frequency(ts, p, bp, min_f, max_f) ==
    LET default_frequency == get_harmonic_mean(min_f, max_f)
        target == Some(get_target_price(bp))
        stop == Some(get_stop_loss_price(bp))
        closeness == Rat((p - bp) * 100, bp)
        \* (ltp / target_price - 1) * 100 and (ltp / stop_loss_price - 1) * 100
        target_closeness == Rat((p - Val(target)) * 100, Val(target))
        stop_loss_closeness == Rat((p - Val(stop)) * 100, Val(stop))
    IN  IF default_frequency.raised THEN FreqRaise(None, None, << >>)
        ELSE IF ts = "NOT_TRIGGERED"
        THEN IF p <= bp
             THEN FreqReturn(max_f, target, stop, << >>)
             ELSE FreqReturn(calculate_frequency(min_f, max_f, closeness).value,
                             target, stop, << closeness >>)
        ELSE IF ts = "HOLDING"
        THEN IF p >= Val(target) THEN FreqReturn(max_f, target, stop, << >>)
             ELSE IF p <= Val(stop)
             THEN FreqReturn(max_f, target, stop, << target_closeness >>)
             \* both frequencies are None: max(None, None) raises TypeError
             ELSE FreqRaise(target, stop, << target_closeness, stop_loss_closeness >>)
        ELSE FreqReturn(default_frequency.value, target, stop, << >>)

\* int() of the quotient n / d: truncation towards zero.
int_quotient(n, d) ==
    LET an == IF n < 0 THEN -n ELSE n
        ad == IF d < 0 THEN -d ELSE d
    IN  IF (n < 0) = (d < 0) THEN an \div ad ELSE -(an \div ad)

\* rerun_wait_time without the lower limit of one second.
rerun_wait_time_unlimited(f) ==
    IF IsNone(f) \/ Val(f).num = 0 THEN None
    ELSE Some(int_quotient(3600 * Val(f).den, Val(f).num))

\* StrategyManager.rerun_wait_time: None (raises) for a frequency of None or zero,
\* otherwise int(3600 / frequency), at least 1.
rerun_wait_time(f) ==
    IF IsNone(f) \/ Val(f).num = 0 THEN None
    ELSE LET w == int_quotient(3600 * Val(f).den, Val(f).num)
         IN  Some(IF w < 1 THEN 1 ELSE w)

\* StrategyTemplateV0.rerun_wait_time: no test of the frequency; the division
\* raises for None (TypeError) and for zero (division by zero).
rerun_wait_time_v0(f) ==
    IF IsNone(f) THEN None
    ELSE IF Val(f).num = 0 THEN None
    ELSE LET w == int_quotient(3600 * Val(f).den, Val(f).num)
         IN  Some(IF w < 1 THEN 1 ELSE w)

\* StrategyManager.cooldown_strategy: a placeholder returning False.
cooldown_strategy == FALSE

Suspend(kind, seconds) == [kind |-> kind, seconds |-> seconds]
NoSuspend == Suspend("none", 0)

\* StrategyManager.get_last_cooldown_time: a placeholder returning None.
get_last_cooldown_time == None

\* StrategyManager.strategy_cooldown_time_remaining.  last: the time the cooldown
\* began (Optional), now: the clock, in seconds.  Inside the cooldown it returns
\* time_difference.total_seconds(), the time elapsed; otherwise None.
strategy_cooldown_time_remaining(last, now) ==
    IF IsNone(last) THEN None
    ELSE IF now - Val(last) < strategy_cooldown_time THEN Some(now - Val(last))
    ELSE None

\* The head of run_live / run_live_async (156-161, 243-248): the suspension made
\* before the login.  A remaining time of None or 0 is false in the `if`.
run_live_cooldown(now) ==
    LET cooldown_time_remaining ==
            strategy_cooldown_time_remaining(get_last_cooldown_time, now)
    IN  IF IsNone(cooldown_time_remaining) \/ Val(cooldown_time_remaining) = 0
        THEN NoSuspend
        ELSE Suspend("strategy_cooldown", Val(cooldown_time_remaining))

\* "Change Strategy Manager States" of the run loops: the timestamp, the holding
\* quantity taken from the output whatever its action, then the trade status.
commit(st, out, now) ==
    LET st1 == [st EXCEPT !.timestamp = Some(now), !.holding_quantity = out.quantity]
    IN  IF out.trade_action = "BUY" THEN [st1 EXCEPT !.trade_status = "HOLDING"]
        ELSE IF out.trade_action = "SELL"
        THEN reset_strategy_state(st.strategy_name, st.trading_mode, st.broker)
        ELSE st1

\* The dictionary StrategyManager.log_strategy_output appends to Results.json.
output_dict(out, p, holding) ==
    [trade_action |-> out.trade_action, holding_quantity |-> holding, ltp |-> p]

\* The except clause that encloses the whole loop: run_live, run_live_async and
\* run_backtest sleep for error_cooldown_time and fall out of the function;
\* run_backtest_async re-raises.
loop_except(live, async) ==
    IF ~live /\ async THEN [pc |-> "raised", suspended |-> NoSuspend]
    ELSE [pc |-> "returned", suspended |-> Suspend("error_cooldown", error_cooldown_time)]

\* One iteration of the loop body after the price was fetched (run_live 177-229,
\* run_backtest 342-369 and their async twins).  live: the loop is run_live;
\* st: strategy_manager_state; ts: self.strategy.trade_status; p: the fetched ltp;
\* in_p: strategy_input.ltp; bp: get_buy_price(); qty: get_buy_quantity();
\* gw: the gateway's behaviour; logio: whether Results.json can be read and written;
\* now: the clock; last: whether the iteration budget is used up.
loop_body(live, async, fmode, st, ts, p, in_p, bp, qty, gw, logio, now, last) ==
    LET st1 == [st EXCEPT !.ltp = Some(p)]
        res == execute(ts, in_p, bp, qty, gw)
        out == res.output
        ok == validate(out)
        st2 == commit(st1, out, now)
        freq == IF fmode = "CONSTANT"
                THEN FreqReturn(Some(execution_frequency), None, None, << >>)
                ELSE get_dynamic_execution_frequency(ts, p, bp,
                         Some(min_max_execution_frequency[1]),
                         Some(min_max_execution_frequency[2]))
        wait == rerun_wait_time(freq.frequency)
        exc == loop_except(live, async)
        again == IF last THEN "returned" ELSE "fetch"
        base == [state |-> st1, decision |-> None, validated |-> None,
                 suspended |-> exc.suspended, pc |-> exc.pc, logged |-> None,
                 submitted |-> res.submitted,
                 price_used |-> [target |-> None, stop_loss |-> None]]
    IN  IF res.raised THEN base
        ELSE IF ~ok
        THEN [base EXCEPT !.decision = Some(out), !.validated = Some(FALSE),
                          !.suspended = Suspend("error_cooldown", error_cooldown_time),
                          !.pc = again]
        ELSE IF logio # "ok"
        THEN [base EXCEPT !.state = st2, !.decision = Some(out), !.validated = Some(TRUE)]
        ELSE LET done == [base EXCEPT !.state = st2, !.decision = Some(out),
                                      !.validated = Some(TRUE),
                                      !.logged = Some(output_dict(out, p, st2.holding_quantity))]
             IN  IF ~live THEN [done EXCEPT !.suspended = NoSuspend, !.pc = again]
                 ELSE IF cooldown_strategy
                 THEN [done EXCEPT !.suspended = Suspend("strategy_cooldown", strategy_cooldown_time),
                                   !.pc = again]
                 ELSE LET used == [target |-> freq.target_price,
                                   stop_loss |-> freq.stop_loss_price]
                      IN  IF freq.raised \/ IsNone(wait)
                          THEN [done EXCEPT !.price_used = used]
                          ELSE [done EXCEPT !.price_used = used,
                                            !.suspended = Suspend("wait", Val(wait)),
                                            !.pc = again]

----------------------------------------------------------------------------
\* StrategyLogger.  The log file is Some(list of entries), or None once a write
\* failed after truncating it (json.load raises on it from then on).

TradeActions == {"BUY", "SELL", "HOLD"}

\* reset_logger: self.reset_logger; opened_on: what the file held when the
\* constructor was called (None: there was no file), kept for the properties.
NoLogger == [alive |-> FALSE, verbose |-> FALSE, logs |-> << >>, output_id |-> 0,
             file |-> None, end |-> "no", reset_logger |-> FALSE, opened_on |-> None]

\* StrategyLogger._get_log_entry.  `record` stands for the content of the entry
\* (strategy input, output, parameters, manager state): the number of the call
\* that passed it, 0 for an entry of an earlier run.
log_entry_of(id, call, action) ==
    [output_id |-> id, record |-> call, trade_action |-> action]

\* StrategyLogger.__init__.  prior: the file before construction (None: no file).
\* An existing file that is kept is loaded into the buffer; when it holds an
\* empty list, self.logs[-1] raises and no logger is constructed.
StrategyLogger_init(prior, reset_logger, verbose) ==
    IF IsNone(prior) \/ reset_logger
    THEN [alive |-> TRUE, verbose |-> verbose, logs |-> << >>, output_id |-> 0,
          file |-> Some(<< >>), end |-> "no", reset_logger |-> reset_logger,
          opened_on |-> prior]
    ELSE IF Val(prior) = << >>
    THEN [NoLogger EXCEPT !.file = prior, !.opened_on = prior]
    ELSE [alive |-> TRUE, verbose |-> verbose, logs |-> Val(prior),
          output_id |-> Val(prior)[Len(Val(prior))].output_id + 1,
          file |-> prior, end |-> "no", reset_logger |-> reset_logger,
          opened_on |-> prior]

\* Whether log_strategy_output builds an entry for the output (lines 82-103).
makes_entry(verbose, action) == verbose \/ action = "BUY" \/ action = "SELL"

\* The flush condition of log_strategy_output (line 107).
batch_full(logs, batch_size) == Len(logs) >= batch_size

\* A flush that writes the buffer over the file instead of extending the file's
\* entries: the fault the durability property has to detect.
overwritten(existing, logs) == logs

\* existing_logs.extend(self.logs) (lines 112, 132).
extended(existing, logs) == existing \o logs

\* No function is called on its own.
NoCall == [fn |-> "none"]

\* A caller of the logger outside any call.  op: the method it is in; call: the
\* number of its log_strategy_output call; existing: its local existing_logs.
IdleThread == [pc |-> "idle", op |-> "none", call |-> 0, batch_size |-> 0,
               existing |-> << >>]

----------------------------------------------------------------------------
\* The scheduler: StrategyManager.run / run_async.

\* Variables of the other components, at rest while the scheduler runs.
IdleInit == /\ persisted = None /\ initialized = None
IdleLogger == /\ logger = NoLogger /\ passed = << >> /\ judged = {} /\ threads = << >>
IdleRuns == /\ runs = << >> /\ run_files = << >>
IdleCalls == /\ fcall = NoCall /\ fresult = None

\* statuses: what self.strategy.trade_status can be when the run starts.
InitRun(statuses) ==
    /\ strategy_name = "MockStrategy"
    /\ mode \in RunModes
    /\ \E b \in Brokers : broker = manager_broker(mode, b)
    /\ is_async \in BOOLEAN
    /\ execution_frequency_mode \in ExecutionFrequencyModes
    /\ pc = "login"
    /\ iteration = 0
    /\ ltp = None
    /\ state = reset_strategy_state(strategy_name, mode, broker)
    /\ strategy_trade_status \in statuses
    /\ input_ltp \in LtpValues
    /\ buy_price = 800
    /\ decision = None
    /\ validated = None
    /\ suspended = NoSuspend
    /\ results_log = << >>
    /\ orders = 0
    /\ last_submitted = 0
    /\ price_used = [target |-> None, stop_loss |-> None]
    /\ stop_requested = FALSE
    /\ IdleInit
    /\ IdleLogger
    /\ IdleRuns
    /\ IdleCalls

\* StrategyTemplate.__init__ sets trade_status to NOT_TRIGGERED.
Init == InitRun({"NOT_TRIGGERED"})

\* Whether one attempt of the retry loop of fetch_access_token (async: of
\* fetch_access_token_async) can end the loop.  broker_login raises for every
\* broker but UPSTOX.  fetch_access_token_async awaits what broker_login returned,
\* a plain string: the await raises TypeError inside the try, the except clause
\* sleeps and the loop tries again, so no attempt of the async loop succeeds.
fetch_access_token_returns(br, async) == br = Some("UPSTOX") /\ ~async

\* fetch_access_token / fetch_access_token_async: the attempt raised; sleep and retry.
\* Only a LIVE run logs in.
LoginFail ==
    /\ pc = "login"
    /\ mode = "LIVE"
    /\ suspended' = Suspend("error_cooldown", error_cooldown_time)
    /\ UNCHANGED << strategy_name, mode, broker, is_async, execution_frequency_mode, pc,
                    iteration, ltp, state, strategy_trade_status, input_ltp, buy_price,
                    decision, validated, results_log, orders, last_submitted, price_used >>
    /\ UNCHANGED << stop_requested, initVars, logVars, runVars, callVars >>

\* The login succeeded (or the run is not LIVE): initialise the manager state and
\* enter the loop.  get_last_cooldown_time() is a placeholder returning None, so
\* no cooldown is waited out first.
StartRun ==
    /\ pc = "login"
    /\ mode = "LIVE" => fetch_access_token_returns(broker, is_async)
    /\ state' = initialize_strategy_manager_state(load_strategy_manager_state,
                                                  strategy_name, mode, broker)
    /\ pc' = "fetch"
    /\ UNCHANGED << strategy_name, mode, broker, is_async, execution_frequency_mode,
                    iteration, ltp, strategy_trade_status, input_ltp, buy_price,
                    decision, validated, suspended, results_log, orders, last_submitted,
                    price_used >>
    /\ UNCHANGED << stop_requested, initVars, logVars, runVars, callVars >>

\* fetch_ltp / fetch_ltp_async: get_ltp raised (LIVE only); sleep and retry.
FetchLtpFail ==
    /\ pc = "fetch"
    /\ iteration < MaxTicks
    /\ mode = "LIVE"
    /\ suspended' = Suspend("error_cooldown", error_cooldown_time)
    /\ UNCHANGED << strategy_name, mode, broker, is_async, execution_frequency_mode, pc,
                    iteration, ltp, state, strategy_trade_status, input_ltp, buy_price,
                    decision, validated, results_log, orders, last_submitted, price_used >>
    /\ UNCHANGED << stop_requested, initVars, logVars, runVars, callVars >>

\* The loop head and a successful fetch_ltp.  Between ticks the strategy's
\* reference price (get_buy_price) may move.
FetchLtp ==
    /\ pc = "fetch"
    /\ iteration < MaxTicks
    /\ \E p \in LtpValues, bp \in BuyPrices :
          /\ ltp' = Some(p)
          /\ buy_price' = bp
    /\ iteration' = iteration + 1
    /\ pc' = "execute"
    /\ UNCHANGED << strategy_name, mode, broker, is_async, execution_frequency_mode,
                    state, strategy_trade_status, input_ltp, decision, validated,
                    suspended, results_log, orders, last_submitted, price_used >>
    /\ UNCHANGED << stop_requested, initVars, logVars, runVars, callVars >>

\* The rest of the iteration: execute, validate, commit, log, wait.
ExecuteTick ==
    /\ pc = "execute"
    /\ \E qty \in 0..MaxQuantity, gw \in GatewayOutcomes, logio \in {"ok", "fail"} :
          LET r == loop_body(mode = "LIVE", is_async, execution_frequency_mode, state,
                             strategy_trade_status, Val(ltp), input_ltp, buy_price,
                             qty, gw, logio, iteration,
                             mode # "LIVE" /\ iteration >= MaxTicks)
          IN  /\ state' = r.state
              /\ decision' = r.decision
              /\ validated' = r.validated
              /\ suspended' = r.suspended
              /\ pc' = r.pc
              /\ price_used' = r.price_used
              /\ last_submitted' = r.submitted
              /\ results_log' = IF IsNone(r.logged) THEN results_log
                                ELSE Append(results_log, Val(r.logged))
              /\ orders' = orders + r.submitted
    /\ UNCHANGED << strategy_name, mode, broker, is_async, execution_frequency_mode,
                    iteration, ltp, strategy_trade_status, input_ltp, buy_price >>
    /\ UNCHANGED << stop_requested, initVars, logVars, runVars, callVars >>

\* The broker reports an open order complete, cancelled or rejected.
OrderReported ==
    /\ pc = "fetch"
    /\ orders > 0
    /\ orders' = orders - 1
    /\ UNCHANGED << strategy_name, mode, broker, is_async, execution_frequency_mode, pc,
                    iteration, ltp, state, strategy_trade_status, input_ltp, buy_price,
                    decision, validated, suspended, results_log, last_submitted,
                    price_used >>
    /\ UNCHANGED << stop_requested, initVars, logVars, runVars, callVars >>

Next == LoginFail \/ StartRun \/ FetchLtpFail \/ FetchLtp \/ ExecuteTick \/ OrderReported

Spec == Init /\ [][Next]_vars

\* Constants.TradeStatus.
TradeStatuses == {"NOT_TRIGGERED", "HOLD", "PROFIT", "LOSS"}

\* The run of a strategy object whose public trade_status its caller has set.
InitCallerStatus == InitRun(TradeStatuses)

SpecCallerStatus == InitCallerStatus /\ [][Next]_vars

\* An external stop of a run.  run_live and run_backtest loop on `while True` /
\* an iteration count and read no stop flag; what stops them from outside is an
\* interrupt (SIGINT), which raises KeyboardInterrupt in the thread of the run
\* wherever it is.

\* The interrupt arrives while fetch_access_token is inside broker_login: the bare
\* `except:` of line 516 catches KeyboardInterrupt like any failed login, the loop
\* sleeps for error_cooldown_time and logs in again.
StopDuringLogin ==
    /\ pc = "login"
    /\ mode = "LIVE"
    /\ ~is_async
    /\ ~stop_requested
    /\ stop_requested' = TRUE
    /\ suspended' = Suspend("error_cooldown", error_cooldown_time)
    /\ UNCHANGED << strategy_name, mode, broker, is_async, execution_frequency_mode, pc,
                    iteration, ltp, state, strategy_trade_status, input_ltp, buy_price,
                    decision, validated, results_log, orders, last_submitted, price_used >>
    /\ UNCHANGED << initVars, logVars, runVars, callVars >>

\* The interrupt arrives anywhere else (in a sleep, in get_ltp, inside the tick):
\* the except clauses of the loops and of fetch_ltp are `except Exception`, which
\* KeyboardInterrupt passes, so the run ends with the exception where it stands.
StopRun ==
    /\ pc \in {"login", "fetch", "execute"}
    /\ ~stop_requested
    /\ stop_requested' = TRUE
    /\ pc' = "raised"
    /\ UNCHANGED << strategy_name, mode, broker, is_async, execution_frequency_mode,
                    iteration, ltp, state, strategy_trade_status, input_ltp, buy_price,
                    decision, validated, suspended, results_log, orders, last_submitted,
                    price_used >>
    /\ UNCHANGED << initVars, logVars, runVars, callVars >>

NextStop == Next \/ StopDuringLogin \/ StopRun

SpecStop == Init /\ [][NextStop]_vars

----------------------------------------------------------------------------
\* initialize_strategy_manager_state as a function of what is persisted.

\* The states an earlier run (of any strategy, mode and broker) can have persisted.
PersistedStates ==
    { [strategy_name |-> n, ltp |-> None, timestamp |-> None, trade_status |-> ts,
       trading_mode |-> m, holding_quantity |-> Some(IF ts = "HOLDING" THEN 1 ELSE 0),
       broker |-> manager_broker(m, b)] :
         n \in StrategyNames, ts \in {"NOT_TRIGGERED", "HOLDING"}, m \in TradingModes,
         b \in Brokers }

InitInitialize ==
    /\ strategy_name \in StrategyNames
    /\ mode \in TradingModes
    /\ \E b \in Brokers : broker = manager_broker(mode, b)
    /\ persisted \in {None} \cup {Some(s) : s \in PersistedStates}
    /\ initialized = None
    /\ pc = "initialize"
    /\ is_async = FALSE
    /\ execution_frequency_mode = "CONSTANT"
    /\ iteration = 0
    /\ ltp = None
    /\ state = reset_strategy_state(strategy_name, mode, broker)
    /\ strategy_trade_status = "NOT_TRIGGERED"
    /\ input_ltp = 799
    /\ buy_price = 800
    /\ decision = None
    /\ validated = None
    /\ suspended = NoSuspend
    /\ results_log = << >>
    /\ orders = 0
    /\ last_submitted = 0
    /\ price_used = [target |-> None, stop_loss |-> None]
    /\ stop_requested = FALSE
    /\ IdleLogger
    /\ IdleRuns
    /\ IdleCalls

Initialize ==
    /\ pc = "initialize"
    /\ initialized' = Some(initialize_strategy_manager_state(persisted, strategy_name,
                                                             mode, broker))
    /\ pc' = "initialized"
    /\ UNCHANGED << strategy_name, mode, broker, is_async, execution_frequency_mode,
                    iteration, ltp, state, strategy_trade_status, input_ltp, buy_price,
                    decision, validated, suspended, results_log, orders, last_submitted,
                    price_used, persisted >>
    /\ UNCHANGED << stop_requested, logVars, runVars, callVars >>

SpecInitialize == InitInitialize /\ [][Initialize]_vars

----------------------------------------------------------------------------
\* StrategyLogger, statement by statement, for one caller or two.

\* The entries a log file holds when the logger is constructed over it.
PriorFiles == {None, Some(<< >>), Some(<< log_entry_of(1, 0, "BUY") >>)}

IdleScheduler ==
    /\ strategy_name = "MockStrategy"
    /\ mode = "BACKTEST"
    /\ broker = None
    /\ is_async = FALSE
    /\ execution_frequency_mode = "CONSTANT"
    /\ pc = "logging"
    /\ iteration = 0
    /\ ltp = None
    /\ state = reset_strategy_state(strategy_name, mode, broker)
    /\ strategy_trade_status = "NOT_TRIGGERED"
    /\ input_ltp = 799
    /\ buy_price = 800
    /\ decision = None
    /\ validated = None
    /\ suspended = NoSuspend
    /\ results_log = << >>
    /\ orders = 0
    /\ last_submitted = 0
    /\ price_used = [target |-> None, stop_loss |-> None]
    /\ stop_requested = FALSE
    /\ IdleInit

InitLogging(callers) ==
    /\ IdleScheduler
    /\ IdleRuns
    /\ IdleCalls
    /\ \E prior \in PriorFiles, reset_logger \in BOOLEAN, verbose \in BOOLEAN :
          logger = StrategyLogger_init(prior, reset_logger, verbose)
    /\ passed = << >>
    /\ judged = {}
    /\ threads = [t \in 1..callers |-> IdleThread]

\* The calls other callers are still inside.
InProgress(t) ==
    { threads[u].call : u \in { v \in DOMAIN threads : v # t /\ threads[v].op = "log" } }

\* The exception leaves the method: the caller is outside any call again.
Raised(t) ==
    /\ threads' = [threads EXCEPT ![t] = IdleThread]
    /\ IF threads[t].op = "end"
       THEN logger' = [logger EXCEPT !.end = "raised"]
       ELSE UNCHANGED logger

\* log_strategy_output is entered: self.output_id += 1 (line 81).
LogCall(t) ==
    /\ logger.alive /\ logger.end = "no"
    /\ threads[t].pc = "idle"
    /\ Len(passed) < MaxRecords
    /\ \E action \in TradeActions, batch_size \in 1..MaxBatch :
          /\ passed' = Append(passed, action)
          /\ threads' = [threads EXCEPT ![t] =
                 [pc |-> "entry", op |-> "log", call |-> Len(passed) + 1,
                  batch_size |-> batch_size, existing |-> << >>]]
    /\ logger' = [logger EXCEPT !.output_id = @ + 1]
    /\ UNCHANGED << schedVars, initVars, runVars, callVars, judged >>

\* Lines 82-105: build the entry and append it, or return when there is none.
BuildEntry(t) ==
    /\ threads[t].pc = "entry"
    /\ LET action == passed[threads[t].call]
       IN  IF makes_entry(logger.verbose, action)
           THEN /\ logger' = [logger EXCEPT !.logs =
                       Append(@, log_entry_of(logger.output_id, threads[t].call, action))]
                /\ threads' = [threads EXCEPT ![t].pc = "check"]
           ELSE /\ threads' = [threads EXCEPT ![t] = IdleThread]
                /\ UNCHANGED logger
    /\ UNCHANGED << schedVars, initVars, runVars, callVars, passed, judged >>

\* end_logging is entered.
EndCall(t) ==
    /\ logger.alive /\ logger.end \in {"no", "raised"}
    /\ threads[t].pc = "idle"
    /\ threads' = [threads EXCEPT ![t] = [IdleThread EXCEPT !.pc = "check", !.op = "end"]]
    /\ logger' = [logger EXCEPT !.end = "running"]
    /\ judged' = IF logger.end = "no" THEN (DOMAIN passed) \ InProgress(t) ELSE judged
    /\ UNCHANGED << schedVars, initVars, runVars, callVars, passed >>

\* Line 107 (len(self.logs) >= batch_size) and line 128 (if self.logs).
CheckBuffer(t) ==
    /\ threads[t].pc = "check"
    /\ LET flush == IF threads[t].op = "log"
                    THEN batch_full(logger.logs, threads[t].batch_size)
                    ELSE logger.logs # << >>
       IN  IF flush
           THEN /\ threads' = [threads EXCEPT ![t].pc = "read"]
                /\ UNCHANGED logger
           ELSE /\ threads' = [threads EXCEPT ![t] = IdleThread]
                /\ IF threads[t].op = "end"
                   THEN logger' = [logger EXCEPT !.end = "returned"]
                   ELSE UNCHANGED logger
    /\ UNCHANGED << schedVars, initVars, runVars, callVars, passed, judged >>

\* Lines 109-110 and 129-130: existing_logs = json.load(f).
ReadFile(t) ==
    /\ threads[t].pc = "read"
    /\ logger.file # None
    /\ threads' = [threads EXCEPT ![t].pc = "extend", ![t].existing = Val(logger.file)]
    /\ UNCHANGED << schedVars, initVars, runVars, callVars, logger, passed, judged >>

\* open() or json.load raises: always on a truncated file, possibly on any.
ReadFileFails(t) ==
    /\ threads[t].pc = "read"
    /\ Raised(t)
    /\ UNCHANGED << schedVars, initVars, runVars, callVars, passed, judged >>

\* Lines 112 and 132: existing_logs.extend(self.logs).
ExtendExisting(t) ==
    /\ threads[t].pc = "extend"
    /\ threads' = [threads EXCEPT ![t].pc = "write",
                                  ![t].existing = extended(@, logger.logs)]
    /\ UNCHANGED << schedVars, initVars, runVars, callVars, logger, passed, judged >>

\* Lines 113-114 and 133-134: json.dump(existing_logs, f).  existing_logs is not
\* read again.
WriteFile(t) ==
    /\ threads[t].pc = "write"
    /\ logger' = [logger EXCEPT !.file = Some(threads[t].existing)]
    /\ threads' = [threads EXCEPT ![t].pc = "clear", ![t].existing = << >>]
    /\ UNCHANGED << schedVars, initVars, runVars, callVars, passed, judged >>

\* The write raises after open(..., "w") truncated the file.
WriteFileFails(t) ==
    /\ threads[t].pc = "write"
    /\ threads' = [threads EXCEPT ![t] = IdleThread]
    /\ logger' = [logger EXCEPT !.file = None,
                                !.end = IF threads[t].op = "end" THEN "raised" ELSE @]
    /\ UNCHANGED << schedVars, initVars, runVars, callVars, passed, judged >>

\* Lines 117 and 137: self.logs.clear(), and the method returns.
ClearBuffer(t) ==
    /\ threads[t].pc = "clear"
    /\ logger' = [logger EXCEPT !.logs = << >>,
                                !.end = IF threads[t].op = "end" THEN "returned" ELSE @]
    /\ threads' = [threads EXCEPT ![t] = IdleThread]
    /\ UNCHANGED << schedVars, initVars, runVars, callVars, passed, judged >>

NextLogging ==
    \E t \in DOMAIN threads :
        \/ LogCall(t)
        \/ BuildEntry(t)
        \/ EndCall(t)
        \/ CheckBuffer(t)
        \/ ReadFile(t)
        \/ ReadFileFails(t)
        \/ ExtendExisting(t)
        \/ WriteFile(t)
        \/ WriteFileFails(t)
        \/ ClearBuffer(t)

\* One caller: the calls follow one another.
SpecLogger == InitLogging(1) /\ [][NextLogging]_vars

\* Two callers on the same StrategyLogger.
SpecLoggerThreads == InitLogging(2) /\ [][NextLogging]_vars

----------------------------------------------------------------------------
\* StrategyManager.log_strategy_output, statement by statement, called by two
\* runs (two StrategyManager objects) for different strategies and symbols.

RunPairs == << [strategy_name |-> "MockStrategy", trading_symbol |-> "IDEA"],
               [strategy_name |-> "OtherStrategy", trading_symbol |-> "HDFCBANK"] >>

\* Line 675: the path is built from Config.root_dir and a literal; neither the
\* strategy nor the symbol nor the mode enters it.
log_file(name, symbol) == "TradingResults/Backtest/Results.json"

run_log_file(r) == log_file(RunPairs[r].strategy_name, RunPairs[r].trading_symbol)

\* Lines 686-699: the dictionary of tick n of run r (n stands for its timestamp).
run_output_dict(r, n) == [trading_symbol |-> RunPairs[r].trading_symbol, tick |-> n]

IdleRun == [pc |-> "idle", logs |-> << >>, appended |-> 0]

\* No result file exists yet (None: no file).
InitRuns ==
    /\ IdleScheduler
    /\ IdleLogger
    /\ IdleCalls
    /\ runs = [r \in DOMAIN RunPairs |-> IdleRun]
    /\ run_files = [f \in {run_log_file(r) : r \in DOMAIN RunPairs} |-> None]

\* The run reaches the call in its tick; line 678: os.path.exists(log_file).
RunLogCall(r) ==
    /\ runs[r].pc = "idle"
    /\ runs[r].appended < MaxAppends
    /\ runs' = [runs EXCEPT ![r].pc =
                  IF IsNone(run_files[run_log_file(r)]) THEN "create" ELSE "read"]
    /\ UNCHANGED << schedVars, initVars, logVars, callVars, run_files >>

\* Lines 679-680: json.dump([], f) into the file found missing.
RunLogCreate(r) ==
    /\ runs[r].pc = "create"
    /\ run_files' = [run_files EXCEPT ![run_log_file(r)] = Some(<< >>)]
    /\ runs' = [runs EXCEPT ![r].pc = "read"]
    /\ UNCHANGED << schedVars, initVars, logVars, callVars >>

\* Lines 683-684: logs = json.load(f).
RunLogRead(r) ==
    /\ runs[r].pc = "read"
    /\ runs' = [runs EXCEPT ![r].pc = "write", ![r].logs = Val(run_files[run_log_file(r)])]
    /\ UNCHANGED << schedVars, initVars, logVars, callVars, run_files >>

\* The read raises: ValueError leaves the method and ends the run's loop.
RunLogFails(r) ==
    /\ runs[r].pc = "read"
    /\ runs' = [runs EXCEPT ![r].pc = "stopped"]
    /\ UNCHANGED << schedVars, initVars, logVars, callVars, run_files >>

\* Lines 700-702: logs.append(output_dict); json.dump(logs, f).
RunLogWrite(r) ==
    /\ runs[r].pc = "write"
    /\ run_files' = [run_files EXCEPT ![run_log_file(r)] =
           Some(Append(runs[r].logs, run_output_dict(r, runs[r].appended + 1)))]
    /\ runs' = [runs EXCEPT ![r] = [IdleRun EXCEPT !.appended = runs[r].appended + 1]]
    /\ UNCHANGED << schedVars, initVars, logVars, callVars >>

NextRuns ==
    \E r \in DOMAIN runs :
        \/ RunLogCall(r)
        \/ RunLogCreate(r)
        \/ RunLogRead(r)
        \/ RunLogFails(r)
        \/ RunLogWrite(r)

SpecRuns == InitRuns /\ [][NextRuns]_vars

----------------------------------------------------------------------------
\* The frequency functions of StrategyManager, each called on its own.

\* Frequency bounds a caller can pass: None, zero, the default bounds.
FrequencyBounds == {None, Some(Rat(0, 1)), Some(Rat(1, 24)), Some(Rat(30, 1))}

\* Frequencies per hour passed to rerun_wait_time.
Frequencies ==
    {None} \cup { Some(Rat(n, 1)) : n \in {-3600, -10, 0, 7, 10, 30, 3600, 3601, 7200} }
           \cup { Some(Rat(1, 24)), Some(Rat(7, 2)) }

\* percentage_closeness values.
Closenesses == {Rat(0, 1), Rat(1, 2), Rat(50, 1)}

\* Prices below the stop loss, between stop loss and target, above the target.
CallPrices == LtpValues \cup {780, 840}

CallStatuses == {"NOT_TRIGGERED", "HOLDING", "HOLD"}

Call(fn, ts, p, bp, min_f, max_f, closeness, f) ==
    [fn |-> fn, ts |-> ts, p |-> p, bp |-> bp, min_f |-> min_f, max_f |-> max_f,
     closeness |-> closeness, f |-> f]

Calls ==
    { Call("calculate_frequency", "NOT_TRIGGERED", 0, 0, min_f, max_f, c, None) :
        min_f \in FrequencyBounds, max_f \in FrequencyBounds, c \in Closenesses }
    \cup
    { Call("get_dynamic_execution_frequency", ts, p, bp, min_f, max_f, Rat(0, 1), None) :
        ts \in CallStatuses, p \in CallPrices, bp \in BuyPrices,
        min_f \in FrequencyBounds, max_f \in FrequencyBounds }
    \cup
    { Call(fn, "NOT_TRIGGERED", 0, 0, None, None, Rat(0, 1), f) :
        fn \in {"rerun_wait_time", "rerun_wait_time_v0"}, f \in Frequencies }

InitFrequency ==
    /\ IdleScheduler
    /\ IdleLogger
    /\ IdleRuns
    /\ fcall \in Calls
    /\ fresult = None

\* The function is applied to its arguments.
CallFunction ==
    /\ fresult = None
    /\ fresult' = Some(
          IF fcall.fn = "calculate_frequency"
          THEN calculate_frequency(fcall.min_f, fcall.max_f, fcall.closeness)
          ELSE IF fcall.fn = "get_dynamic_execution_frequency"
          THEN LET r == get_dynamic_execution_frequency(fcall.ts, fcall.p, fcall.bp,
                                                        fcall.min_f, fcall.max_f)
               IN  [raised |-> r.raised, value |-> r.frequency, passed |-> r.passed]
          ELSE LET w == IF fcall.fn = "rerun_wait_time" THEN rerun_wait_time(fcall.f)
                        ELSE rerun_wait_time_v0(fcall.f)
               IN  IF IsNone(w) THEN Raises ELSE Returns(w))
    /\ UNCHANGED << schedVars, initVars, logVars, runVars, fcall >>

SpecFrequency == InitFrequency /\ [][CallFunction]_vars

----------------------------------------------------------------------------
\* fetch_ltp / fetch_ltp_async called on their own.  get_ltp is the price source
\* of the run: each call of it returns a price or raises, as the script of the
\* call says (None: the call raises).  The LIVE branch of get_ltp as written
\* (lines 641-651) builds its quote key with statements that begin with a unary
\* plus on a string; the model takes the key to be built and the price read.

\* The scripts: what the first MaxAttempts calls of get_ltp do.
RECURSIVE GetLtpScripts(_)
GetLtpScripts(n) ==
    IF n = 0 THEN { << >> }
    ELSE { Append(sc, o) : sc \in GetLtpScripts(n - 1),
                           o \in {None} \cup { Some(q) : q \in LtpValues } }

\* A fetch_ltp call before its first attempt.  calls: get_ltp calls made;
\* slept: the suspensions made, in seconds; returned: the value returned.
FetchStart == [calls |-> 0, slept |-> << >>, returned |-> None]

\* The retry loop without its cooldown.
fetch_ltp_attempt_no_cooldown(progress, outcome) ==
    IF IsNone(outcome)
    THEN [progress EXCEPT !.calls = @ + 1]
    ELSE [progress EXCEPT !.calls = @ + 1, !.returned = outcome]

\* One pass of the loop of fetch_ltp (576-590) / fetch_ltp_async (609-622): get_ltp
\* is called; when it raises, the except clause sleeps for error_cooldown_time and
\* the loop goes round; when it returns, the loop ends and the price is returned.
fetch_ltp_attempt(progress, outcome) ==
    IF IsNone(outcome)
    THEN [progress EXCEPT !.calls = @ + 1,
                          !.slept = Append(@, error_cooldown_time)]
    ELSE [progress EXCEPT !.calls = @ + 1, !.returned = outcome]

InitFetchLtp ==
    /\ IdleScheduler
    /\ IdleLogger
    /\ IdleRuns
    /\ \E fn \in {"fetch_ltp", "fetch_ltp_async"}, sc \in GetLtpScripts(MaxAttempts) :
          fcall = [fn |-> fn, outcomes |-> sc]
    /\ fresult = FetchStart

\* The next pass of the loop, while nothing is returned.
FetchLtpAttempt ==
    /\ IsNone(fresult.returned)
    /\ fresult.calls < Len(fcall.outcomes)
    /\ fresult' = fetch_ltp_attempt(fresult, fcall.outcomes[fresult.calls + 1])
    /\ UNCHANGED << schedVars, initVars, logVars, runVars, fcall >>

\* The thread (or task) in fetch_ltp keeps running: every sleep ends.
SpecFetchLtp == InitFetchLtp /\ [][FetchLtpAttempt]_vars /\ WF_vars(FetchLtpAttempt)

----------------------------------------------------------------------------
\* The cooldown test at the start of a live run, called on its own.

\* Times (seconds of the clock) at which a cooldown began.
CooldownStarts == {1000, 5000000}

\* Times elapsed since: none, inside the cooldown, its last second, its end, after.
ElapsedTimes ==
    {0, 1, 60, 3600, 86400, strategy_cooldown_time \div 2, strategy_cooldown_time - 3600,
     strategy_cooldown_time - 1, strategy_cooldown_time, strategy_cooldown_time + 1,
     2 * strategy_cooldown_time}

\* began: when the last post-exit cooldown of the strategy began (None: never).
CooldownCalls ==
    { [fn |-> fn, began |-> began, now |-> now] :
        fn \in {"strategy_cooldown_time_remaining", "run_live", "run_live_async"},
        began \in {None}, now \in CooldownStarts }
    \cup
    { [fn |-> fn, began |-> Some(b), now |-> b + t] :
        fn \in {"strategy_cooldown_time_remaining", "run_live", "run_live_async"},
        b \in CooldownStarts, t \in ElapsedTimes }

InitCooldown ==
    /\ IdleScheduler
    /\ IdleLogger
    /\ IdleRuns
    /\ fcall \in CooldownCalls
    /\ fresult = None

\* strategy_cooldown_time_remaining is applied to the time the cooldown began.
CallCooldownRemaining ==
    /\ fresult = None
    /\ fcall.fn = "strategy_cooldown_time_remaining"
    /\ fresult' = Some(Returns(strategy_cooldown_time_remaining(fcall.began, fcall.now)))
    /\ UNCHANGED << schedVars, initVars, logVars, runVars, fcall >>

\* A live run starts: what it does before logging in.
CallRunLive ==
    /\ fresult = None
    /\ fcall.fn \in {"run_live", "run_live_async"}
    /\ fresult' = Some(run_live_cooldown(fcall.now))
    /\ UNCHANGED << schedVars, initVars, logVars, runVars, fcall >>

NextCooldown == CallCooldownRemaining \/ CallRunLive

SpecCooldown == InitCooldown /\ [][NextCooldown]_vars

----------------------------------------------------------------------------
\* The sell signals of the strategy templates and StrategyTemplate.sell, each
\* called on its own.  Prices are in hundredths here, so that the edges of the
\* tolerance bands (99.9 % of the target, 100.1 % of the stop loss) are prices.

\* Reference prices for which both edges are whole hundredths.
SignalBuyPrices == {50000, 100000, 150000}

\* The two edges, a hundredth on either side of each, and the reference price.
SignalPrices(bp) ==
    LET target_edge == (get_target_price(bp) * (1000 - tolerance_per_mille)) \div 1000
        stop_edge == (get_stop_loss_price(bp) * (1000 + tolerance_per_mille)) \div 1000
    IN  {target_edge - 1, target_edge, target_edge + 1,
         stop_edge - 1, stop_edge, stop_edge + 1, bp}

SignalCalls ==
    { [fn |-> fn, p |-> p, bp |-> bp, gw |-> "ok"] :
        fn \in {"sell_signal", "sell_signal_trigger", "sell_signal_stop_loss"},
        p \in UNION { SignalPrices(b) : b \in SignalBuyPrices }, bp \in SignalBuyPrices }
    \cup
    { [fn |-> "sell", p |-> p, bp |-> bp, gw |-> gw] :
        p \in UNION { SignalPrices(b) : b \in SignalBuyPrices }, bp \in SignalBuyPrices,
        gw \in {"ok", "order_raises", "order_no_id"} }

InitSignals ==
    /\ IdleScheduler
    /\ IdleLogger
    /\ IdleRuns
    /\ fcall \in SignalCalls
    /\ fresult = None

\* A signal function is applied to its arguments.
CallSignal ==
    /\ fresult = None
    /\ fcall.fn \in {"sell_signal", "sell_signal_trigger", "sell_signal_stop_loss"}
    /\ fresult' = Some(Returns(Some(
          IF fcall.fn = "sell_signal" THEN sell_signal(fcall.p, fcall.bp)
          ELSE IF fcall.fn = "sell_signal_trigger"
          THEN sell_signal_trigger(fcall.p, fcall.bp)
          ELSE sell_signal_stop_loss(fcall.p, fcall.bp))))
    /\ UNCHANGED << schedVars, initVars, logVars, runVars, fcall >>

\* sell is applied to a fresh output.
CallSell ==
    /\ fresult = None
    /\ fcall.fn = "sell"
    /\ fresult' = Some(sell(NoActionOutput, fcall.p, fcall.bp, fcall.gw))
    /\ UNCHANGED << schedVars, initVars, logVars, runVars, fcall >>

NextSignals == CallSignal \/ CallSell

SpecSignals == InitSignals /\ [][NextSignals]_vars

----------------------------------------------------------------------------
\* Properties of the scheduler.

\* C1: a BUY decision is produced only in a tick that starts with trade_status
\* NOT_TRIGGERED, and a SELL decision only in a tick that starts HOLDING.
C1_LegalDecisions ==
    [][ (pc = "execute" /\ decision' # None) =>
          /\ Val(decision').trade_action = "BUY" => state.trade_status = "NOT_TRIGGERED"
          /\ Val(decision').trade_action = "SELL" => state.trade_status = "HOLDING" ]_vars

\* C2: at most one submitted order is outstanding, and no tick submits two.
C2_AtMostOneOutstandingOrder == orders <= 1 /\ last_submitted <= 1

C4_ValidIffSuccess ==
    validated # None =>
        (Val(validated) <=> Val(decision).execution_status = Some("SUCCESS"))

\* C5: holding_quantity is an integer >= 0, and it is 0 exactly when trade_status
\* is NOT_TRIGGERED.
C5_HoldingQuantityInvariant ==
    /\ state.holding_quantity # None
    /\ Val(state.holding_quantity) >= 0
    /\ Val(state.holding_quantity) = 0 <=> state.trade_status = "NOT_TRIGGERED"

\* C6: through a holding period the target and stop-loss prices the scheduler
\* evaluates are those of the tick that committed the BUY, whatever
\* get_buy_price() returns later.
C6_FrozenTargets ==
    [][ (pc = "execute" /\ state.trade_status = "HOLDING"
           /\ state'.trade_status = "HOLDING"
           /\ price_used.target # None /\ price_used'.target # None) =>
          price_used' = price_used ]_vars

\* C7: no failure within a tick ends the live loop.
C7_LiveLoopSurvivesFailures == mode = "LIVE" => pc \notin {"returned", "raised"}

C12_LogFailureKeepsLoop ==
    [][ (pc = "execute" /\ validated' = Some(TRUE) /\ results_log' = results_log
           /\ (mode = "LIVE" \/ iteration < MaxTicks)) =>
          pc' = "fetch" ]_vars

\* C13: a tick whose buy fails the margin check submits no order, leaves
\* trade_status NOT_TRIGGERED and holding_quantity 0, records the decision with
\* its insufficient-margin message, and (in the live loop) ends in the normal
\* inter-tick wait.
C13_MarginFailureIsNoOp ==
    [][ (pc = "execute" /\ decision' # None
           /\ Val(decision').information = "insufficient_margin") =>
          /\ last_submitted' = 0
          /\ state'.trade_status = "NOT_TRIGGERED"
          /\ state'.holding_quantity = Some(0)
          /\ Val(decision').trade_action = "NO_ACTION"
          /\ (results_log' # results_log \/ pc' \in {"returned", "raised"})
          /\ (mode = "LIVE" /\ pc' = "fetch") => suspended'.kind = "wait" ]_vars

\* C14: when the order submission of a tick fails (the decision is a BUY for
\* which place_order returned no order id), the decision's execution_status is
\* FAILURE and the tick leaves trade_status and holding_quantity as they were.
C14_FailedSubmissionNotCommitted ==
    [][ (pc = "execute" /\ decision' # None
           /\ Val(decision').trade_action = "BUY"
           /\ Val(decision').order_id = None) =>
          /\ Val(decision').execution_status = Some("FAILURE")
          /\ state'.trade_status = state.trade_status
          /\ state'.holding_quantity = state.holding_quantity ]_vars

\* C15: no BUY decision has a quantity below 1.
C15_BuyQuantityAtLeastOne ==
    (decision # None /\ Val(decision).trade_action = "BUY") =>
        /\ Val(decision).quantity # None
        /\ Val(Val(decision).quantity) >= 1

\* C16: when execute is invoked in a trade status it has no evaluation for
\* (PROFIT or LOSS), the error it raises ends the run and leaves run / run_async
\* as an exception, not as a normal return.
C16_IllegalStatusPropagates ==
    [][ (pc = "execute" /\ strategy_trade_status \in {"PROFIT", "LOSS"}) =>
          pc' = "raised" ]_vars

\* C21: the blocking and the asynchronous loops behave alike: a login that ends
\* the retry loop of the one ends that of the other, and from the same state
\* and the same fetched price, decision inputs and failures a tick of the one
\* yields the same manager state, log append, suspension and outcome (next
\* tick, return, or error) as a tick of the other.
C21_AsyncLoopsEquivalent ==
    [][ /\ (pc = "login" /\ mode = "LIVE" /\ pc' = "fetch") =>
              fetch_access_token_returns(broker, ~is_async)
        /\ pc = "execute" =>
              \A qty \in 0..MaxQuantity, gw \in GatewayOutcomes, logio \in {"ok", "fail"} :
                  loop_body(mode = "LIVE", TRUE, execution_frequency_mode, state,
                            strategy_trade_status, Val(ltp), input_ltp, buy_price,
                            qty, gw, logio, iteration,
                            mode # "LIVE" /\ iteration >= MaxTicks)
                  = loop_body(mode = "LIVE", FALSE, execution_frequency_mode, state,
                              strategy_trade_status, Val(ltp), input_ltp, buy_price,
                              qty, gw, logio, iteration,
                              mode # "LIVE" /\ iteration >= MaxTicks) ]_vars

\* C22: once an external stop is requested, the run starts no further tick: it
\* leaves the loop at the suspension point it is in or reaches next.  (The run
\* loops buffer no log record: log_strategy_output writes each tick's record to
\* the file at once.)
C22_StopEndsLoop == [][ stop_requested => iteration' = iteration ]_vars

\* C24: in a tick that starts in NOT_TRIGGERED and ends with a decision, the
\* decision is BUY exactly when the price fetched in that tick is strictly below
\* buy_price * (1 + tolerance) (unless the margin check refused the order): the
\* price the buy condition is evaluated on is the fetched one.
C24_BuyOnFetchedPrice ==
    [][ (/\ pc = "execute"
         /\ state.trade_status = "NOT_TRIGGERED"
         /\ decision' # None
         /\ Val(decision').execution_status # Some("FAILURE")) =>
            (Val(decision').trade_action = "BUY" <=> buy_signal(Val(ltp), buy_price)) ]_vars

\* C26: a backtest run with an iteration budget of MaxTicks begins at most
\* MaxTicks ticks and ends by returning the manager state, not with an error.
C26_BacktestReturnsWithinBudget ==
    mode = "BACKTEST" =>
        /\ iteration <= MaxTicks
        /\ pc # "raised"

\* C29: when a tick starts, the trade status the strategy's execute and
\* get_dynamic_execution_frequency branch on (self.strategy.trade_status) is the
\* trade status of the manager state as last committed (the status the strategy
\* spells HOLD being the manager's HOLDING).
C29_StrategySeesCommittedStatus ==
    pc = "execute" =>
        \/ strategy_trade_status = state.trade_status
        \/ strategy_trade_status = "HOLD" /\ state.trade_status = "HOLDING"

----------------------------------------------------------------------------
\* Properties of the logger.

\* How often the log file holds the record of a call.
TimesInFile(call) ==
    Cardinality({ i \in DOMAIN Val(logger.file) : Val(logger.file)[i].record = call })

Quiescent == \A t \in DOMAIN threads : threads[t].pc = "idle"

C30_ReopenKeepsPriorRecords ==
    (logger.opened_on # None /\ ~logger.reset_logger) =>
        /\ logger.alive
        /\ logger.file # None =>
              LET file == Val(logger.file)
                  n == Len(Val(logger.opened_on))
              IN  /\ Len(file) >= n
                  /\ SubSeq(file, 1, n) = Val(logger.opened_on)
                  /\ \A i \in (n + 1)..Len(file) : file[i].record # 0
                  /\ \A i, j \in (n + 1)..Len(file) :
                        i < j => file[i].record < file[j].record

\* C10: with two callers, once end_logging has returned and both callers are
\* outside any call, every accepted record whose call was over when end_logging
\* was called is in the log file exactly once, and no record is in it twice.
C10_ConcurrentFlushAtomic ==
    (logger.end = "returned" /\ Quiescent /\ logger.file # None) =>
        /\ \A call \in judged :
              makes_entry(logger.verbose, passed[call]) => TimesInFile(call) = 1
        /\ \A call \in DOMAIN passed : TimesInFile(call) <= 1

----------------------------------------------------------------------------
\* Properties of concurrent runs.

\* How often the file holds an entry.
TimesInRunFile(file, entry) ==
    Cardinality({ i \in DOMAIN Val(file) : Val(file)[i] = entry })

RunsQuiescent == \A r \in DOMAIN runs : runs[r].pc \in {"idle", "stopped"}

\* C11: when neither of two concurrent runs is inside log_strategy_output, the
\* log target of each run holds every record the run has appended, once, and no
\* record of the other run.
C11_RunsLogSeparately ==
    RunsQuiescent =>
        \A r \in DOMAIN runs :
            LET file == run_files[run_log_file(r)]
            IN  /\ \A n \in 1..runs[r].appended :
                      /\ file # None
                      /\ TimesInRunFile(file, run_output_dict(r, n)) = 1
                /\ file # None =>
                      \A i \in DOMAIN Val(file) :
                          Val(file)[i].trading_symbol = RunPairs[r].trading_symbol

----------------------------------------------------------------------------
\* Properties of the frequency functions.

\* Bounds with 0 < min_frequency <= max_frequency.
ValidBounds ==
    /\ fcall.min_f # None /\ fcall.max_f # None
    /\ Val(fcall.min_f).num > 0
    /\ RatLeq(Val(fcall.min_f), Val(fcall.max_f))

\* C17: with valid bounds, calculate_frequency (for a non-negative closeness) and
\* get_dynamic_execution_frequency (in NOT_TRIGGERED and in HOLDING) return a
\* number between min_frequency and max_frequency.
C17_FrequencyWithinBounds ==
    (/\ fresult # None
     /\ fcall.fn \in {"calculate_frequency", "get_dynamic_execution_frequency"}
     /\ fcall.ts \in {"NOT_TRIGGERED", "HOLDING"}
     /\ fcall.closeness.num >= 0
     /\ ValidBounds) =>
        /\ ~Val(fresult).raised
        /\ Val(fresult).value # None
        /\ RatLeq(Val(fcall.min_f), Val(Val(fresult).value))
        /\ RatLeq(Val(Val(fresult).value), Val(fcall.max_f))

C19_BadFrequencyRaises ==
    (/\ fresult # None
     /\ fcall.fn = "rerun_wait_time"
     /\ (fcall.f = None \/ Val(fcall.f).num <= 0)) =>
        Val(fresult).raised

\* C20: with a bound that is None or 0, get_dynamic_execution_frequency and
\* calculate_frequency do not raise, and get_dynamic_execution_frequency returns
\* the harmonic mean of the bounds.
C20_FallbackOnMissingBounds ==
    (/\ fresult # None
     /\ fcall.fn \in {"calculate_frequency", "get_dynamic_execution_frequency"}
     /\ \/ fcall.min_f \in {None, Some(Rat(0, 1))}
        \/ fcall.max_f \in {None, Some(Rat(0, 1))}) =>
        /\ ~Val(fresult).raised
        /\ Val(fresult).value # None
        /\ (/\ fcall.fn = "get_dynamic_execution_frequency"
            /\ fcall.min_f # None /\ fcall.max_f # None) =>
               Val(fresult).value = Some(harmonic_mean(Val(fcall.min_f), Val(fcall.max_f)))

\* C25: in HOLDING with the price strictly between stop-loss and target price,
\* get_dynamic_execution_frequency passes calculate_frequency a non-negative
\* closeness for each of the two boundaries and returns a frequency (the larger
\* of the two computed).
C25_HoldingFrequencyOfBothBoundaries ==
    (/\ fresult # None
     /\ fcall.fn = "get_dynamic_execution_frequency"
     /\ fcall.ts = "HOLDING"
     /\ ValidBounds
     /\ get_stop_loss_price(fcall.bp) < fcall.p
     /\ fcall.p < get_target_price(fcall.bp)) =>
        /\ Len(Val(fresult).passed) = 2
        /\ \A i \in DOMAIN Val(fresult).passed : Val(fresult).passed[i].num >= 0
        /\ ~Val(fresult).raised
        /\ Val(fresult).value # None

----------------------------------------------------------------------------
\* Properties of the sell signals.

\* C23: the sell signal is true exactly when the price is at or above
\* target * (1 - tolerance) or at or below stop_loss * (1 + tolerance), a price
\* equal to either edge included; for every other price sell decides HOLD and
\* submits no order.
C23_SellSignalInclusive ==
    fresult # None =>
        LET above == 1000 * fcall.p >=
                       get_target_price(fcall.bp) * (1000 - tolerance_per_mille)
            below == 1000 * fcall.p <=
                       get_stop_loss_price(fcall.bp) * (1000 + tolerance_per_mille)
        IN  /\ fcall.fn = "sell_signal" =>
                  Val(fresult).value = Some(above \/ below)
            /\ fcall.fn = "sell_signal_trigger" => Val(fresult).value = Some(above)
            /\ fcall.fn = "sell_signal_stop_loss" => Val(fresult).value = Some(below)
            /\ (fcall.fn = "sell" /\ ~Val(fresult).raised) =>
                  IF above \/ below
                  THEN Val(fresult).output.trade_action = "SELL"
                  ELSE /\ Val(fresult).output.trade_action = "HOLD"
                       /\ Val(fresult).submitted = 0

----------------------------------------------------------------------------
\* Properties of fetch_ltp.

\* C27: fetch_ltp makes one suspension of error_cooldown_time after each failed
\* get_ltp call and none otherwise, however many calls fail; what it returns is
\* the price of the first get_ltp call that succeeded, returned at that call;
\* the manager state is not changed; and when some call of the script succeeds,
\* fetch_ltp eventually returns.
C27_FetchRetriesUntilSuccess ==
    /\ [](LET failed == IF IsNone(fresult.returned) THEN fresult.calls
                        ELSE fresult.calls - 1
          IN  /\ \A i \in 1..failed : IsNone(fcall.outcomes[i])
              /\ fresult.slept = [i \in 1..failed |-> error_cooldown_time]
              /\ ~IsNone(fresult.returned) =>
                    /\ fresult.returned = fcall.outcomes[fresult.calls]
                    /\ Val(fresult.returned) \in LtpValues)
    /\ [][state' = state]_vars
    /\ (\E i \in 1..Len(fcall.outcomes) : ~IsNone(fcall.outcomes[i]))
          ~> ~IsNone(fresult.returned)

\* fetch_ltp has returned 805 from the third get_ltp call, after two failed
\* calls and two cooldowns.
C27_Witness ==
    /\ fcall.fn = "fetch_ltp"
    /\ fresult.calls = 3
    /\ fresult.slept = << error_cooldown_time, error_cooldown_time >>
    /\ fresult.returned = Some(805)

----------------------------------------------------------------------------
\* Properties of the cooldown at the start of a live run.

\* C28: a live run that starts t seconds after a post-exit cooldown began, with
\* t below strategy_cooldown_time, first suspends for strategy_cooldown_time - t;
\* a run that starts when the cooldown is over, or when there was none, does not
\* suspend.  strategy_cooldown_time_remaining returns that remaining time.
C28_ResumesRemainingCooldown ==
    fresult # None =>
        LET inside == /\ fcall.began # None
                      /\ fcall.now - Val(fcall.began) < strategy_cooldown_time
            remaining == strategy_cooldown_time - (fcall.now - Val(fcall.began))
        IN  IF fcall.fn = "strategy_cooldown_time_remaining"
            THEN Val(fresult).value = IF inside THEN Some(remaining) ELSE None
            ELSE Val(fresult) = IF inside THEN Suspend("strategy_cooldown", remaining)
                                ELSE NoSuspend

====
